---- MODULE Spec2Model ----
(***************************************************************************)
(* Model of the biscuit_auth Python binding (src/src/lib.rs): the objects  *)
(* a Python program holds (one BiscuitBuilder, a store of Biscuit values,  *)
(* one BlockBuilder, one Authorizer) and one action per exposed method.    *)
(* The methods of lib.rs are thin wrappers; what the wrapped biscuit_auth  *)
(* crate does (Datalog evaluation, chaining, sealing, the wire format) is  *)
(* modelled by the Lib* operators over a propositional Datalog fragment.   *)
(***************************************************************************)
EXTENDS Naturals, Sequences, FiniteSets, TLC

VARIABLES
    bb,      \* the BiscuitBuilder object: [facts, rules, checks]
    toks,    \* the Biscuit objects created so far, in creation order
    blk,     \* the BlockBuilder object, or NoBlock before create_block()
    az,      \* the Authorizer object, or NoAuthorizer before construction
    res,     \* the last call: [op, arg, kind, val]
    added,   \* history: policy texts accepted by the current Authorizer, in call order
    calls    \* number of API calls made so far

vars == <<bb, toks, blk, az, res, added, calls>>

----------------------------------------------------------------------------
(* Bounds of the model *)

MaxCalls == 4      \* API calls of one run

(* Program constants *)

KeyLen == 32       \* byte length of a raw public or private key

----------------------------------------------------------------------------
(* Datalog texts handed to the API, and the typed statements they parse to *)

Atoms == {"a", "b"}

Text(k, h, b) == [k |-> k, h |-> h, b |-> b]

TFactA == Text("fact", "a", {})
TRuleBA == Text("rule", "b", {"a"})
TCheckB == Text("check", "", {"b"})
TAllowA == Text("allow", "", {"a"})
TAllowB == Text("allow", "", {"b"})
TDenyA == Text("deny", "", {"a"})
TBad == Text("bad", "", {})

Texts == {TFactA, TRuleBA, TCheckB, TAllowA, TAllowB, TDenyA, TBad}

\* Source chunks handed to add_code: statements separated by ";".
Sources == { <<TFactA, TAllowA>>, <<TFactA, TBad>>, <<TDenyA, TCheckB, TAllowA>> }

Ok(v) == [ok |-> TRUE, val |-> v]
Err(e) == [ok |-> FALSE, val |-> e]

\* &str -> builder::Fact / Rule / Check / Policy (TryFrom<&str>)
ParseFact(t) == IF t.k = "fact" THEN Ok([pred |-> t.h]) ELSE Err("parse error")
ParseRule(t) == IF t.k = "rule" THEN Ok([head |-> t.h, body |-> t.b]) ELSE Err("parse error")
ParseCheck(t) == IF t.k = "check" THEN Ok([queries |-> t.b]) ELSE Err("parse error")
ParsePolicy(t) ==
    IF t.k \in {"allow", "deny"} THEN Ok([kind |-> t.k, queries |-> t.b])
    ELSE Err("parse error")

\* typed statement -> its Datalog text (the printer behind print_block_source)
PrintFact(f) == Text("fact", f.pred, {})
PrintRule(r) == Text("rule", r.head, r.body)
PrintCheck(c) == Text("check", "", c.queries)

Range(s) == {s[i] : i \in DOMAIN s}

IsFactText(t) == t.k = "fact"
IsRuleText(t) == t.k = "rule"
IsCheckText(t) == t.k = "check"
IsPolicyText(t) == t.k \in {"allow", "deny"}

FactsOf(src) ==
    LET s == SelectSeq(src, IsFactText) IN [i \in 1..Len(s) |-> ParseFact(s[i]).val]
RulesOf(src) ==
    LET s == SelectSeq(src, IsRuleText) IN [i \in 1..Len(s) |-> ParseRule(s[i]).val]
ChecksOf(src) ==
    LET s == SelectSeq(src, IsCheckText) IN [i \in 1..Len(s) |-> ParseCheck(s[i]).val]
PolicyOfText(t) == ParsePolicy(t).val

PoliciesOf(src) ==
    LET s == SelectSeq(src, IsPolicyText) IN [i \in 1..Len(s) |-> ParsePolicy(s[i]).val]

\* biscuit::parser::parse_source: every statement must parse, else the errors
LibParseSource(src) ==
    IF \E i \in DOMAIN src : src[i].k = "bad"
    THEN Err("parse error")
    ELSE Ok([facts |-> FactsOf(src), rules |-> RulesOf(src),
             checks |-> ChecksOf(src), policies |-> PoliciesOf(src)])

----------------------------------------------------------------------------
(* Keys and signatures *)

RootIds == {"r1", "r2"}
BlockIds == {"k1", "k2"}     \* what the random generator of a block keypair may return

PrivateKey(id) == [priv |-> id]
PublicKey(id) == [pub |-> id]
PublicOf(private) == [pub |-> private.priv]

Sign(private, msg) == [by |-> PublicOf(private), msg |-> msg]
Verify(public, sig, msg) == sig.by = public /\ sig.msg = msg

----------------------------------------------------------------------------
(* The token chain of the biscuit_auth crate *)

EmptyPayload == [facts |-> <<>>, rules |-> <<>>, checks |-> <<>>]

SignedBlock(private, payload, nextId) ==
    [payload |-> payload, next |-> PublicKey(nextId),
     sig |-> Sign(private, <<payload, PublicKey(nextId)>>)]

IsSealed(c) == c.proof.kind = "final_sig"

\* BiscuitBuilder::build: block 0 signed by the root private key
LibBuild(rootId, payload, nextId) ==
    Ok([blocks |-> <<SignedBlock(PrivateKey(rootId), payload, nextId)>>,
        proof |-> [kind |-> "next_secret", v |-> PrivateKey(nextId)]])

\* Biscuit::append: the new block is signed by the key the previous block names
LibAppend(c, payload, nextId) ==
    IF IsSealed(c) THEN Err("AlreadySealed")
    ELSE Ok([blocks |-> Append(c.blocks, SignedBlock(c.proof.v, payload, nextId)),
             proof |-> [kind |-> "next_secret", v |-> PrivateKey(nextId)]])

\* Biscuit::seal: the next secret is replaced by a final signature
LibSeal(c) ==
    IF IsSealed(c) THEN Err("AlreadySealed")
    ELSE Ok([blocks |-> c.blocks,
             proof |-> [kind |-> "final_sig",
                        v |-> Sign(c.proof.v, c.blocks[Len(c.blocks)])]])

LibBlockCount(c) == Len(c.blocks)

PrintPayload(p) ==
    [i \in 1..Len(p.facts) |-> PrintFact(p.facts[i])]
    \o [i \in 1..Len(p.rules) |-> PrintRule(p.rules[i])]
    \o [i \in 1..Len(p.checks) |-> PrintCheck(p.checks[i])]

\* Biscuit::print_block_source: index 0 is the authority block
LibPrintBlockSource(c, index) ==
    IF index + 1 \in DOMAIN c.blocks
    THEN [some |-> TRUE, v |-> PrintPayload(c.blocks[index + 1].payload)]
    ELSE [some |-> FALSE, v |-> <<>>]

----------------------------------------------------------------------------
(* The wire format: a version field, one field per block, the proof *)

Field(f, v) == [f |-> f, v |-> v]

Raw(body) == [enc |-> "raw", body |-> body]
Base64(body) == [enc |-> "b64", body |-> body]

\* Biscuit::to_vec
LibToVec(c) ==
    Ok(Raw(<<Field("version", "v2")>>
           \o [i \in 1..Len(c.blocks) |-> Field("block", c.blocks[i])]
           \o <<Field("proof", c.proof)>>))

ChainVerifies(blocks, proof, root) ==
    /\ \A i \in DOMAIN blocks :
          Verify(IF i = 1 THEN root ELSE blocks[i - 1].next,
                 blocks[i].sig, <<blocks[i].payload, blocks[i].next>>)
    /\ \/ /\ proof.kind = "next_secret"
          /\ PublicOf(proof.v) = blocks[Len(blocks)].next
       \/ /\ proof.kind = "final_sig"
          /\ Verify(blocks[Len(blocks)].next, proof.v, blocks[Len(blocks)])

\* Biscuit::from: decodes the envelope and walks the signature chain
LibFrom(data, root) ==
    LET b == data.body
        n == Len(b)
    IN  IF data.enc # "raw" THEN Err("deserialization error")
        ELSE IF n < 3 \/ b[1].f # "version" \/ b[1].v # "v2" THEN Err("deserialization error")
        ELSE IF b[n].f # "proof" \/ \E i \in 2..(n - 1) : b[i].f # "block"
             THEN Err("deserialization error")
        ELSE LET blocks == [i \in 1..(n - 2) |-> b[i + 1].v]
             IN  IF ChainVerifies(blocks, b[n].v, root)
                 THEN Ok([blocks |-> blocks, proof |-> b[n].v])
                 ELSE Err("invalid signature")

\* Biscuit::to_base64
LibToBase64(c) == Ok(Base64(LibToVec(c).val.body))

\* Biscuit::from_base64
LibFromBase64(data, root) ==
    IF data.enc # "b64" THEN Err("base64 error") ELSE LibFrom(Raw(data.body), root)

----------------------------------------------------------------------------
(* The Datalog engine of the biscuit_auth crate *)

\* World::run: apply every rule until no new fact is derived
RECURSIVE LibRun(_, _)
LibRun(facts, rules) ==
    LET derived == facts \cup {r.head : r \in {x \in Range(rules) : x.body \subseteq facts}}
    IN  IF derived = facts THEN facts ELSE LibRun(derived, rules)

\* World::query_match
LibQueryMatch(queries, facts) == queries \subseteq facts

PredsOf(factSeq) == {factSeq[i].pred : i \in DOMAIN factSeq}

\* Authorizer::new
LibAuthorizerNew ==
    [facts |-> {}, rules |-> <<>>, checks |-> <<>>, policies |-> <<>>, blocks |-> <<>>]

\* Authorizer::from_token: the authority block's facts and rules are loaded at once
LibAuthorizerFromToken(c) ==
    [facts |-> PredsOf(c.blocks[1].payload.facts),
     rules |-> c.blocks[1].payload.rules,
     checks |-> <<>>, policies |-> <<>>,
     blocks |-> [i \in DOMAIN c.blocks |-> c.blocks[i].payload]]

\* FailedCheck::Authorizer carries no block id; FailedCheck::Block carries one
AuthorizerOrigin == <<"authorizer", 0>>
BlockOrigin(i) == <<"block", i>>

FailedChecks(origin, checks, facts) ==
    LET failing == SelectSeq([i \in DOMAIN checks |-> i],
                             LAMBDA i : ~LibQueryMatch(checks[i].queries, facts))
    IN  [k \in DOMAIN failing |-> [block_id |-> origin, check_id |-> failing[k] - 1]]

\* the blocks after the authority block, in order: each adds its facts, runs its
\* own rules on everything seen so far, and has its checks tested
RECURSIVE LibBlockErrors(_, _, _)
LibBlockErrors(blocks, i, facts) ==
    IF i > Len(blocks) THEN <<>>
    ELSE LET world == LibRun(facts \cup PredsOf(blocks[i].facts), blocks[i].rules)
         IN  FailedChecks(BlockOrigin(i - 1), blocks[i].checks, world)
             \o LibBlockErrors(blocks, i + 1, world)

FirstMatch(policies, facts) ==
    LET m == {i \in DOMAIN policies : LibQueryMatch(policies[i].queries, facts)}
    IN  IF m = {} THEN 0 ELSE CHOOSE i \in m : \A j \in m : i <= j

\* Authorizer::authorize
LibAuthorize(a) ==
    LET world == LibRun(a.facts, a.rules)
        errors == FailedChecks(AuthorizerOrigin, a.checks, world)
                  \o (IF a.blocks = <<>> THEN <<>>
                      ELSE FailedChecks(BlockOrigin(0), a.blocks[1].checks, world))
                  \o LibBlockErrors(a.blocks, 2, world)
        p == FirstMatch(a.policies, world)
    IN  IF p = 0 THEN Err([error |-> "NoMatchingPolicy", policy |-> <<"none", 0>>, checks |-> errors])
        ELSE IF a.policies[p].kind = "allow" /\ errors = <<>> THEN Ok(p - 1)
        ELSE Err([error |-> "Unauthorized",
                  policy |-> <<a.policies[p].kind, p - 1>>,
                  checks |-> errors])

----------------------------------------------------------------------------
(* The methods of lib.rs. Each returns the receiver after the call (self), *)
(* the kind of the outcome ("ok" or the exception raised) and its value.   *)

Out(self, kind, val) == [self |-> self, kind |-> kind, val |-> val]

None == "None"

\* PyBiscuitBuilder::new
PyBiscuitBuilder_new == [facts |-> <<>>, rules |-> <<>>, checks |-> <<>>]

PyBiscuitBuilder_add_authority_fact(self, fact) ==
    LET r == ParseFact(fact)
    IN  IF r.ok THEN Out([self EXCEPT !.facts = Append(@, r.val)], "ok", None)
        ELSE Out(self, "DataLogError", r.val)

PyBiscuitBuilder_add_authority_rule(self, rule) ==
    LET r == ParseRule(rule)
    IN  IF r.ok THEN Out([self EXCEPT !.rules = Append(@, r.val)], "ok", None)
        ELSE Out(self, "DataLogError", r.val)

PyBiscuitBuilder_add_authority_check(self, check) ==
    LET r == ParseCheck(check)
    IN  IF r.ok THEN Out([self EXCEPT !.checks = Append(@, r.val)], "ok", None)
        ELSE Out(self, "DataLogError", r.val)

PyBiscuitBuilder_build_consuming(self, rootId, nextId) ==
    LET r == LibBuild(rootId, [facts |-> self.facts, rules |-> self.rules,
                               checks |-> self.checks], nextId)
    IN  IF r.ok THEN Out(PyBiscuitBuilder_new, "ok", r.val)
        ELSE Out(PyBiscuitBuilder_new, "BiscuitBuildError", r.val)

\* build(&self, root): the builder is borrowed, its statements are cloned
PyBiscuitBuilder_build(self, rootId, nextId) ==
    LET r == LibBuild(rootId, [facts |-> self.facts, rules |-> self.rules,
                               checks |-> self.checks], nextId)
    IN  IF r.ok THEN Out(self, "ok", r.val)
        ELSE Out(self, "BiscuitBuildError", r.val)

\* PyBiscuit::create_block
PyBiscuit_create_block(self) ==
    [live |-> TRUE, facts |-> <<>>, rules |-> <<>>, checks |-> <<>>]

NoBlock == [live |-> FALSE, facts |-> <<>>, rules |-> <<>>, checks |-> <<>>]

\* the argument of append is extracted from the Python object by Clone
\* (#[derive(Clone)] on PyBlockBuilder): the Python object keeps its content
PyBlockBuilder_after_append(block) == block

PyBiscuit_append_overwrite(self, block, nextId) ==
    LET kept == [self EXCEPT !.blocks = SubSeq(@, 1, Len(@) - 1)]
        r == LibAppend(kept, [facts |-> block.facts, rules |-> block.rules,
                              checks |-> block.checks], nextId)
    IN  IF r.ok THEN Out(self, "ok", r.val)
        ELSE Out(self, "BiscuitBuildError", r.val)

PyBiscuit_append_valueerror(self, block, nextId) ==
    LET r == LibAppend(self, [facts |-> block.facts, rules |-> block.rules,
                              checks |-> block.checks], nextId)
    IN  IF r.ok THEN Out(self, "ok", r.val)
        ELSE Out(self, "ValueError", r.val)

\* PyBiscuit::append
PyBiscuit_append(self, block, nextId) ==
    LET r == LibAppend(self, [facts |-> block.facts, rules |-> block.rules,
                              checks |-> block.checks], nextId)
    IN  IF r.ok THEN Out(self, "ok", r.val)
        ELSE Out(self, "BiscuitBuildError", r.val)

PyBiscuit_seal_inplace(self) ==
    LET r == LibSeal(self)
    IN  IF r.ok THEN Out(r.val, "ok", r.val)
        ELSE Out(self, "PanicException", r.val)

\* PyBiscuit::seal: the library's error is unwrapped, a panic
PyBiscuit_seal(self) ==
    LET r == LibSeal(self)
    IN  IF r.ok THEN Out(self, "ok", r.val)
        ELSE Out(self, "PanicException", r.val)

PyBiscuit_from_bytes(data, root) ==
    LET r == LibFrom(data, root)
    IN  IF r.ok THEN Out(None, "ok", r.val)
        ELSE Out(None, "BiscuitValidationError", r.val)

PyBiscuit_from_base64_raw(data, root) ==
    LET r == LibFrom(data, root)
    IN  IF r.ok THEN Out(None, "ok", r.val)
        ELSE Out(None, "BiscuitValidationError", r.val)

PyBiscuit_from_base64(data, root) ==
    LET r == LibFromBase64(data, root)
    IN  IF r.ok THEN Out(None, "ok", r.val)
        ELSE Out(None, "BiscuitValidationError", r.val)

PyBiscuit_to_bytes(self) ==
    LET r == LibToVec(self)
    IN  IF r.ok THEN Out(self, "ok", r.val)
        ELSE Out(self, "BiscuitSerializationError", r.val)

\* PyBiscuit::to_base64: the library's error is unwrapped, a panic
PyBiscuit_to_base64(self) ==
    LET r == LibToBase64(self)
    IN  IF r.ok THEN Out(self, "ok", r.val)
        ELSE Out(self, "PanicException", r.val)

PyBiscuit_block_count(self) == Out(self, "ok", LibBlockCount(self))

PyBiscuit_block_source(self, index) == Out(self, "ok", LibPrintBlockSource(self, index))

\* PyAuthorizer::default: no token, nothing loaded
PyAuthorizer_new ==
    [live |-> TRUE, token |-> <<>>, facts |-> <<>>, rules |-> <<>>,
     checks |-> <<>>, policies |-> <<>>]

NoAuthorizer == [PyAuthorizer_new EXCEPT !.live = FALSE]

\* PyBiscuit::authorizer: the token is cloned into a default authorizer
PyBiscuit_authorizer(self) == [PyAuthorizer_new EXCEPT !.token = <<self>>]

PyAuthorizer_add_fact(self, fact) ==
    LET r == ParseFact(fact)
    IN  IF r.ok THEN Out([self EXCEPT !.facts = Append(@, r.val)], "ok", None)
        ELSE Out(self, "DataLogError", r.val)

PyAuthorizer_add_rule(self, rule) ==
    LET r == ParseRule(rule)
    IN  IF r.ok THEN Out([self EXCEPT !.rules = Append(@, r.val)], "ok", None)
        ELSE Out(self, "DataLogError", r.val)

PyAuthorizer_add_check(self, check) ==
    LET r == ParseCheck(check)
    IN  IF r.ok THEN Out([self EXCEPT !.checks = Append(@, r.val)], "ok", None)
        ELSE Out(self, "DataLogError", r.val)

PyAuthorizer_add_policy_front(self, policy) ==
    LET r == ParsePolicy(policy)
    IN  IF r.ok THEN Out([self EXCEPT !.policies = <<r.val>> \o @], "ok", None)
        ELSE Out(self, "DataLogError", r.val)

PyAuthorizer_add_policy(self, policy) ==
    LET r == ParsePolicy(policy)
    IN  IF r.ok THEN Out([self EXCEPT !.policies = Append(@, r.val)], "ok", None)
        ELSE Out(self, "DataLogError", r.val)

PyAuthorizer_add_code_partial(self, source) ==
    LET r == LibParseSource(source)
    IN  IF ~r.ok THEN Out([self EXCEPT !.facts = @ \o FactsOf(source)], "DataLogError", r.val)
        ELSE Out([self EXCEPT !.facts = @ \o r.val.facts,
                              !.rules = @ \o r.val.rules,
                              !.checks = @ \o r.val.checks,
                              !.policies = @ \o r.val.policies], "ok", None)

\* add_code: the whole source is parsed before anything is pushed
PyAuthorizer_add_code(self, source) ==
    LET r == LibParseSource(source)
    IN  IF ~r.ok THEN Out(self, "DataLogError", r.val)
        ELSE Out([self EXCEPT !.facts = @ \o r.val.facts,
                              !.rules = @ \o r.val.rules,
                              !.checks = @ \o r.val.checks,
                              !.policies = @ \o r.val.policies], "ok", None)

\* the four loading loops of authorize(): Authorizer::add_fact / add_rule /
\* add_check / add_policy of the crate, on statements that are already typed
LoadFacts(a, facts) == [a EXCEPT !.facts = @ \cup PredsOf(facts)]
LoadRules(a, rules) == [a EXCEPT !.rules = @ \o rules]
LoadChecks_skipped(a, checks) == a
LoadChecks(a, checks) == [a EXCEPT !.checks = @ \o checks]
LoadPolicies(a, policies) == [a EXCEPT !.policies = @ \o policies]

PyAuthorizer_authorize_keeping(self) ==
    LET a0 == IF self.token = <<>> THEN LibAuthorizerNew
              ELSE LibAuthorizerFromToken(self.token[1])
        a == LoadPolicies(LoadChecks(LoadRules(LoadFacts(a0, self.facts), self.rules),
                                     self.checks), self.policies)
        r == LibAuthorize(a)
        kept == [self EXCEPT !.facts =
                    @ \o (IF self.token = <<>> THEN <<>>
                          ELSE self.token[1].blocks[1].payload.facts)]
    IN  IF r.ok THEN Out(kept, "ok", r.val)
        ELSE Out(kept, "AuthorizationError", r.val)

\* authorize(&self): a library authorizer is built from scratch on every call,
\* run, and dropped; every library error is raised as AuthorizationError
PyAuthorizer_authorize(self) ==
    LET a0 == IF self.token = <<>> THEN LibAuthorizerNew
              ELSE LibAuthorizerFromToken(self.token[1])
        a == LoadPolicies(LoadChecks(LoadRules(LoadFacts(a0, self.facts), self.rules),
                                     self.checks), self.policies)
        r == LibAuthorize(a)
    IN  IF r.ok THEN Out(self, "ok", r.val)
        ELSE Out(self, "AuthorizationError", r.val)

\* BlockBuilder::add_fact / add_rule / add_check of the crate: parse, then push
PyBlockBuilder_add_fact(self, fact) ==
    LET r == ParseFact(fact)
    IN  IF r.ok THEN Out([self EXCEPT !.facts = Append(@, r.val)], "ok", None)
        ELSE Out(self, "DataLogError", r.val)

PyBlockBuilder_add_rule(self, rule) ==
    LET r == ParseRule(rule)
    IN  IF r.ok THEN Out([self EXCEPT !.rules = Append(@, r.val)], "ok", None)
        ELSE Out(self, "DataLogError", r.val)

PyBlockBuilder_add_check(self, check) ==
    LET r == ParseCheck(check)
    IN  IF r.ok THEN Out([self EXCEPT !.checks = Append(@, r.val)], "ok", None)
        ELSE Out(self, "DataLogError", r.val)

\* BlockBuilder::add_code of the crate: the source is parsed whole; a block holds
\* no policies, and a source with one is either refused (strict) or loses it
LibBlockAddCode(b, source, strict) ==
    LET r == LibParseSource(source)
    IN  IF ~r.ok THEN Err(r.val)
        ELSE IF strict /\ r.val.policies # <<>> THEN Err("parse error")
        ELSE Ok([b EXCEPT !.facts = @ \o r.val.facts,
                          !.rules = @ \o r.val.rules,
                          !.checks = @ \o r.val.checks])

PyBlockBuilder_add_code(self, source, strict) ==
    LET r == LibBlockAddCode(self, source, strict)
    IN  IF r.ok THEN Out(r.val, "ok", None)
        ELSE Out(self, "DataLogError", r.val)

----------------------------------------------------------------------------
(* Key encodings *)

KeyBytes(id) == [n |-> KeyLen, id |-> id]
Truncated(bytes) == [bytes EXCEPT !.n = @ - 1]
HexEncode(bytes) == [hex |-> TRUE, bytes |-> bytes]
NotHex == [hex |-> FALSE, bytes |-> KeyBytes("r1")]

KeyByteInputs == {KeyBytes("r1"), Truncated(KeyBytes("r1"))}
KeyHexInputs == {HexEncode(b) : b \in KeyByteInputs} \cup {NotHex}

\* PublicKey::from_bytes / PrivateKey::from_bytes of the crate
LibKeyFromBytes(cls, data) ==
    IF data.n # KeyLen THEN Err("invalid key size")
    ELSE Ok(IF cls = "PublicKey" THEN PublicKey(data.id) ELSE PrivateKey(data.id))

\* hex::decode
HexDecode(text) == IF text.hex THEN Ok(text.bytes) ELSE Err("invalid hex character")

\* PyPublicKey::from_bytes, PyPrivateKey::from_bytes
PyKey_from_bytes(cls, data) ==
    LET r == LibKeyFromBytes(cls, data)
    IN  IF r.ok THEN Out(None, "ok", r.val) ELSE Out(None, "ValueError", r.val)

\* PyPublicKey::from_hex, PyPrivateKey::from_hex
PyKey_from_hex(cls, text) ==
    LET d == HexDecode(text)
    IN  IF ~d.ok THEN Out(None, "ValueError", d.val)
        ELSE PyKey_from_bytes(cls, d.val)

\* PyPublicKey::to_bytes / to_hex, PyPrivateKey::to_bytes / to_hex
PyKey_to_bytes(id) == KeyBytes(id)
PyKey_to_hex(id) == HexEncode(KeyBytes(id))

----------------------------------------------------------------------------
(* The state machine: one action per method call of a Python program *)

\* the record of a call; streak counts the calls of the same method in a row
Res(op, recv, x, kind, val) ==
    [op |-> op, recv |-> recv, x |-> x, kind |-> kind, val |-> val,
     streak |-> IF res.op = op THEN res.streak + 1 ELSE 1]

NoCall == [op |-> "none", recv |-> 0, x |-> None, kind |-> "ok", val |-> None, streak |-> 0]

Init ==
    /\ bb = PyBiscuitBuilder_new
    /\ toks = <<>>
    /\ blk = NoBlock
    /\ az = NoAuthorizer
    /\ res = NoCall
    /\ added = <<>>
    /\ calls = 0

Call == calls < MaxCalls /\ calls' = calls + 1

BB_add_authority_fact ==
    \E t \in Texts :
        LET o == PyBiscuitBuilder_add_authority_fact(bb, t)
        IN  /\ Call
            /\ bb' = o.self
            /\ res' = Res("BiscuitBuilder.add_authority_fact", 0, None, o.kind, o.val)
            /\ UNCHANGED <<toks, blk, az, added>>

BB_add_authority_rule ==
    \E t \in Texts :
        LET o == PyBiscuitBuilder_add_authority_rule(bb, t)
        IN  /\ Call
            /\ bb' = o.self
            /\ res' = Res("BiscuitBuilder.add_authority_rule", 0, None, o.kind, o.val)
            /\ UNCHANGED <<toks, blk, az, added>>

BB_add_authority_check ==
    \E t \in Texts :
        LET o == PyBiscuitBuilder_add_authority_check(bb, t)
        IN  /\ Call
            /\ bb' = o.self
            /\ res' = Res("BiscuitBuilder.add_authority_check", 0, None, o.kind, o.val)
            /\ UNCHANGED <<toks, blk, az, added>>

\* a call that returns a Biscuit: the new object joins the store
Returned(o) == IF o.kind = "ok" THEN Append(toks, o.val) ELSE toks
Handle(o) == IF o.kind = "ok" THEN Len(toks) + 1 ELSE 0

BB_build ==
    \E r \in RootIds, n \in BlockIds :
        LET o == PyBiscuitBuilder_build(bb, r, n)
        IN  /\ Call
            /\ bb' = o.self
            /\ toks' = Returned(o)
            /\ res' = Res("BiscuitBuilder.build", 0, r, o.kind, Handle(o))
            /\ UNCHANGED <<blk, az, added>>

Tok_create_block ==
    \E i \in DOMAIN toks :
        /\ Call
        /\ blk' = PyBiscuit_create_block(toks[i])
        /\ res' = Res("Biscuit.create_block", i, None, "ok", None)
        /\ UNCHANGED <<bb, toks, az, added>>

Tok_append ==
    \E i \in DOMAIN toks, n \in BlockIds :
        LET o == PyBiscuit_append(toks[i], blk, n)
        IN  /\ Call /\ blk.live
            /\ toks' = [Returned(o) EXCEPT ![i] = o.self]
            /\ blk' = PyBlockBuilder_after_append(blk)
            /\ res' = Res("Biscuit.append", i, None, o.kind, Handle(o))
            /\ UNCHANGED <<bb, az, added>>

Tok_seal ==
    \E i \in DOMAIN toks :
        LET o == PyBiscuit_seal(toks[i])
        IN  /\ Call
            /\ toks' = [Returned(o) EXCEPT ![i] = o.self]
            /\ res' = Res("Biscuit.seal", i, None, o.kind, Handle(o))
            /\ UNCHANGED <<bb, blk, az, added>>

Tok_authorizer ==
    \E i \in DOMAIN toks :
        /\ Call
        /\ az' = PyBiscuit_authorizer(toks[i])
        /\ added' = <<>>
        /\ res' = Res("Biscuit.authorizer", i, None, "ok", None)
        /\ UNCHANGED <<bb, toks, blk>>

Tok_to_bytes ==
    \E i \in DOMAIN toks :
        LET o == PyBiscuit_to_bytes(toks[i])
        IN  /\ Call
            /\ toks' = [toks EXCEPT ![i] = o.self]
            /\ res' = Res("Biscuit.to_bytes", i, None, o.kind, o.val)
            /\ UNCHANGED <<bb, blk, az, added>>

Tok_to_base64 ==
    \E i \in DOMAIN toks :
        LET o == PyBiscuit_to_base64(toks[i])
        IN  /\ Call
            /\ toks' = [toks EXCEPT ![i] = o.self]
            /\ res' = Res("Biscuit.to_base64", i, None, o.kind, o.val)
            /\ UNCHANGED <<bb, blk, az, added>>

\* the data handed to from_bytes / from_base64: what the last call serialized,
\* as it is or cut short
Serialized == res.op \in {"Biscuit.to_bytes", "Biscuit.to_base64"} /\ res.kind = "ok"
CutShort(data) == [data EXCEPT !.body = SubSeq(@, 1, Len(@) - 1)]
DataInputs == {res.val, CutShort(res.val)}

Tok_from_bytes ==
    \E r \in RootIds :
        /\ Serialized
        /\ \E d \in DataInputs :
            LET o == PyBiscuit_from_bytes(d, PublicKey(r))
            IN  /\ Call
                /\ toks' = Returned(o)
                /\ res' = Res("Biscuit.from_bytes", res.recv,
                               [data |-> d, root |-> PublicKey(r)], o.kind, Handle(o))
                /\ UNCHANGED <<bb, blk, az, added>>

Tok_from_base64 ==
    \E r \in RootIds :
        /\ Serialized
        /\ \E d \in DataInputs :
            LET o == PyBiscuit_from_base64(d, PublicKey(r))
            IN  /\ Call
                /\ toks' = Returned(o)
                /\ res' = Res("Biscuit.from_base64", res.recv,
                               [data |-> d, root |-> PublicKey(r)], o.kind, Handle(o))
                /\ UNCHANGED <<bb, blk, az, added>>

Tok_block_count ==
    \E i \in DOMAIN toks :
        LET o == PyBiscuit_block_count(toks[i])
        IN  /\ Call
            /\ toks' = [toks EXCEPT ![i] = o.self]
            /\ res' = Res("Biscuit.block_count", i, None, o.kind, o.val)
            /\ UNCHANGED <<bb, blk, az, added>>

Tok_block_source ==
    \E i \in DOMAIN toks : \E index \in 0..Len(toks[i].blocks) :
        LET o == PyBiscuit_block_source(toks[i], index)
        IN  /\ Call
            /\ toks' = [toks EXCEPT ![i] = o.self]
            /\ res' = Res("Biscuit.block_source", i, index, o.kind, o.val)
            /\ UNCHANGED <<bb, blk, az, added>>

Blk_add_fact ==
    \E t \in Texts :
        LET o == PyBlockBuilder_add_fact(blk, t)
        IN  /\ Call /\ blk.live
            /\ blk' = o.self
            /\ res' = Res("BlockBuilder.add_fact", 0, None, o.kind, o.val)
            /\ UNCHANGED <<bb, toks, az, added>>

Blk_add_rule ==
    \E t \in Texts :
        LET o == PyBlockBuilder_add_rule(blk, t)
        IN  /\ Call /\ blk.live
            /\ blk' = o.self
            /\ res' = Res("BlockBuilder.add_rule", 0, None, o.kind, o.val)
            /\ UNCHANGED <<bb, toks, az, added>>

Blk_add_check ==
    \E t \in Texts :
        LET o == PyBlockBuilder_add_check(blk, t)
        IN  /\ Call /\ blk.live
            /\ blk' = o.self
            /\ res' = Res("BlockBuilder.add_check", 0, None, o.kind, o.val)
            /\ UNCHANGED <<bb, toks, az, added>>

Blk_add_code ==
    \E src \in Sources, strict \in BOOLEAN :
        LET o == PyBlockBuilder_add_code(blk, src, strict)
        IN  /\ Call /\ blk.live
            /\ blk' = o.self
            /\ res' = Res("BlockBuilder.add_code", 0, src, o.kind, o.val)
            /\ UNCHANGED <<bb, toks, az, added>>

Az_new ==
    /\ Call
    /\ az' = PyAuthorizer_new
    /\ added' = <<>>
    /\ res' = Res("Authorizer.new", 0, None, "ok", None)
    /\ UNCHANGED <<bb, toks, blk>>

Az_add_fact ==
    \E t \in Texts :
        LET o == PyAuthorizer_add_fact(az, t)
        IN  /\ Call /\ az.live
            /\ az' = o.self
            /\ res' = Res("Authorizer.add_fact", 0, None, o.kind, o.val)
            /\ UNCHANGED <<bb, toks, blk, added>>

Az_add_rule ==
    \E t \in Texts :
        LET o == PyAuthorizer_add_rule(az, t)
        IN  /\ Call /\ az.live
            /\ az' = o.self
            /\ res' = Res("Authorizer.add_rule", 0, None, o.kind, o.val)
            /\ UNCHANGED <<bb, toks, blk, added>>

Az_add_check ==
    \E t \in Texts :
        LET o == PyAuthorizer_add_check(az, t)
        IN  /\ Call /\ az.live
            /\ az' = o.self
            /\ res' = Res("Authorizer.add_check", 0, None, o.kind, o.val)
            /\ UNCHANGED <<bb, toks, blk, added>>

Az_add_policy ==
    \E t \in Texts :
        LET o == PyAuthorizer_add_policy(az, t)
        IN  /\ Call /\ az.live
            /\ az' = o.self
            /\ added' = IF o.kind = "ok" THEN Append(added, t) ELSE added
            /\ res' = Res("Authorizer.add_policy", 0, None, o.kind, o.val)
            /\ UNCHANGED <<bb, toks, blk>>

Az_add_code ==
    \E src \in Sources :
        LET o == PyAuthorizer_add_code(az, src)
        IN  /\ Call /\ az.live
            /\ az' = o.self
            /\ added' = IF o.kind = "ok" THEN added \o SelectSeq(src, IsPolicyText)
                        ELSE added
            /\ res' = Res("Authorizer.add_code", 0, src, o.kind, o.val)
            /\ UNCHANGED <<bb, toks, blk>>

Az_authorize ==
    LET o == PyAuthorizer_authorize(az)
    IN  /\ Call /\ az.live
        /\ az' = o.self
        /\ res' = Res("Authorizer.authorize", 0, None, o.kind, o.val)
        /\ UNCHANGED <<bb, toks, blk, added>>

Key_from_bytes ==
    \E cls \in {"PublicKey", "PrivateKey"}, d \in KeyByteInputs :
        /\ Call
        /\ LET o == PyKey_from_bytes(cls, d)
           IN  res' = Res("Key.from_bytes", 0, None, o.kind, o.val)
        /\ UNCHANGED <<bb, toks, blk, az, added>>

Key_from_hex ==
    \E cls \in {"PublicKey", "PrivateKey"}, d \in KeyHexInputs :
        /\ Call
        /\ LET o == PyKey_from_hex(cls, d)
           IN  res' = Res("Key.from_hex", 0, None, o.kind, o.val)
        /\ UNCHANGED <<bb, toks, blk, az, added>>

Next ==
    \/ BB_add_authority_fact \/ BB_add_authority_rule \/ BB_add_authority_check
    \/ BB_build
    \/ Tok_create_block \/ Tok_append \/ Tok_seal \/ Tok_authorizer
    \/ Tok_to_bytes \/ Tok_to_base64 \/ Tok_from_bytes \/ Tok_from_base64
    \/ Tok_block_count \/ Tok_block_source
    \/ Blk_add_fact \/ Blk_add_rule \/ Blk_add_check \/ Blk_add_code
    \/ Az_new \/ Az_add_fact \/ Az_add_rule \/ Az_add_check \/ Az_add_policy
    \/ Az_add_code \/ Az_authorize
    \/ Key_from_bytes \/ Key_from_hex

Spec == Init /\ [][Next]_vars

----------------------------------------------------------------------------
(* The holder's side: an issuer has built a token from a builder and the   *)
(* holder has created a block and filled it; the program goes on with the  *)
(* methods of Biscuit and Authorizer.                                      *)

FA == ParseFact(TFactA).val
RBA == ParseRule(TRuleBA).val
CB == ParseCheck(TCheckB).val

Payload(facts, rules, checks) == [facts |-> facts, rules |-> rules, checks |-> checks]

\* what the issuer's builder held when it built the token
PreparedAuthority ==
    { Payload(<<>>, <<>>, <<>>), Payload(<<FA>>, <<>>, <<>>),
      Payload(<<FA>>, <<>>, <<CB>>), Payload(<<FA>>, <<RBA>>, <<CB>>) }

\* what the holder's block builder holds
PreparedBlock ==
    { Payload(<<>>, <<>>, <<>>), Payload(<<FA>>, <<>>, <<>>),
      Payload(<<>>, <<>>, <<CB>>), Payload(<<>>, <<RBA>>, <<CB>>) }

InitHolder ==
    /\ bb \in PreparedAuthority
    /\ toks = <<PyBiscuitBuilder_build(bb, "r1", "k1").val>>
    /\ \E b \in PreparedBlock :
          blk = [live |-> TRUE, facts |-> b.facts, rules |-> b.rules, checks |-> b.checks]
    /\ az = NoAuthorizer
    /\ res = NoCall
    /\ added = <<>>
    /\ calls = 0

\* the holder attenuates and the verifier authorizes
NextAuthz ==
    \/ Tok_append \/ Tok_authorizer
    \/ Az_new \/ Az_add_fact \/ Az_add_rule \/ Az_add_check \/ Az_add_policy
    \/ Az_add_code \/ Az_authorize

SpecAuthz == InitHolder /\ [][NextAuthz]_vars

\* the holder fills blocks and attenuates, again and again
NextAttenuate ==
    \/ Tok_create_block
    \/ Blk_add_fact \/ Blk_add_rule \/ Blk_add_check \/ Blk_add_code
    \/ Tok_append

SpecAttenuate == InitHolder /\ [][NextAttenuate]_vars

\* the holder attenuates, seals, serializes and reads tokens back
NextWire ==
    \/ Tok_append \/ Tok_seal
    \/ Tok_to_bytes \/ Tok_to_base64 \/ Tok_from_bytes \/ Tok_from_base64
    \/ Tok_block_count \/ Tok_block_source

SpecWire == InitHolder /\ [][NextWire]_vars

----------------------------------------------------------------------------
(* What the claims speak of, stated on the Authorizer object itself: the   *)
(* facts a statement can see are the least set that holds the facts in     *)
(* scope and is closed under the rules in scope.                           *)

Least(facts, rules) ==
    CHOOSE s \in SUBSET Atoms :
        /\ facts \subseteq s
        /\ \A r \in rules : r.body \subseteq s => r.head \in s
        /\ \A t \in SUBSET Atoms :
              (facts \subseteq t /\ \A r \in rules : r.body \subseteq t => r.head \in t)
                  => s \subseteq t

TokenBlocks(z) ==
    IF z.token = <<>> THEN <<>>
    ELSE [i \in DOMAIN z.token[1].blocks |-> z.token[1].blocks[i].payload]

\* scope 0: the authority block and the authorizer; scope i: block i on top of it
RECURSIVE Visible(_, _)
Visible(z, i) ==
    LET blocks == TokenBlocks(z)
    IN  IF i = 0
        THEN Least(PredsOf(z.facts)
                       \cup (IF blocks = <<>> THEN {} ELSE PredsOf(blocks[1].facts)),
                   Range(z.rules)
                       \cup (IF blocks = <<>> THEN {} ELSE Range(blocks[1].rules)))
        ELSE Least(Visible(z, i - 1) \cup PredsOf(blocks[i + 1].facts),
                   Range(blocks[i + 1].rules))

SomeCheckFails(z) ==
    \/ \E k \in DOMAIN z.checks : ~(z.checks[k].queries \subseteq Visible(z, 0))
    \/ \E i \in DOMAIN TokenBlocks(z) : \E k \in DOMAIN TokenBlocks(z)[i].checks :
          ~(TokenBlocks(z)[i].checks[k].queries \subseteq Visible(z, i - 1))

Authorized == res.op = "Authorizer.authorize"

\* C1: whenever a check of the token's blocks or of the authorizer has no
\* matching derivation, authorize() raises AuthorizationError, whatever the
\* policies are: no allow policy makes it return an index.
C1_FailedCheckDenies ==
    (Authorized /\ SomeCheckFails(az)) => res.kind = "AuthorizationError"

\* a check failed although an allow policy matched
C1_Witness ==
    /\ Authorized /\ SomeCheckFails(az)
    /\ \E k \in DOMAIN az.policies :
          az.policies[k].kind = "allow" /\ az.policies[k].queries \subseteq Visible(az, 0)
    /\ \E k \in DOMAIN az.checks : ~(az.checks[k].queries \subseteq Visible(az, 0))
    /\ res.kind = "AuthorizationError"

\* the policies in the order of the add_policy / add_code calls that gave them
Matching == {i \in DOMAIN added : added[i].b \subseteq Visible(az, 0)}
FirstMatching == CHOOSE i \in Matching : \A j \in Matching : i <= j

\* C2: when every check passes, the first matching policy in the order of
\* addition decides: an allow policy returns its index, a deny policy raises
\* AuthorizationError naming it, and no match at all raises AuthorizationError.
C2_FirstMatchDecides ==
    (Authorized /\ ~SomeCheckFails(az)) =>
        IF Matching = {}
        THEN res.kind = "AuthorizationError" /\ res.val.error = "NoMatchingPolicy"
        ELSE IF added[FirstMatching].k = "allow"
             THEN res.kind = "ok" /\ res.val = FirstMatching - 1
             ELSE /\ res.kind = "AuthorizationError"
                  /\ res.val.policy = <<"deny", FirstMatching - 1>>

\* the second policy decided: the first one did not match
C2_Witness ==
    /\ Authorized /\ ~SomeCheckFails(az)
    /\ Len(added) >= 2 /\ Matching # {} /\ FirstMatching = 2
    /\ res.kind = "ok" /\ res.val = 1

\* [deny, allow] both matching: denied, naming the deny policy
C2_WitnessDeny ==
    /\ Authorized /\ ~SomeCheckFails(az)
    /\ Len(added) >= 2 /\ Matching = {1, 2}
    /\ added[1].k = "deny" /\ added[2].k = "allow"
    /\ res.kind = "AuthorizationError" /\ res.val.policy = <<"deny", 0>>

\* the authorizer c.authorizer() gives once the local statements of loc are added
WithLocal(c, loc) ==
    [PyBiscuit_authorizer(c) EXCEPT !.facts = loc.facts, !.rules = loc.rules,
                                    !.checks = loc.checks, !.policies = loc.policies]

Outcome(c, loc) == PyAuthorizer_authorize(WithLocal(c, loc))
Denied(c, loc) == Outcome(c, loc).kind = "AuthorizationError"

\* the checks in force for a chain: every check of every block, with its place
ChecksInForce(c) ==
    UNION {{<<i, k, c.blocks[i].payload.checks[k]>> :
               k \in DOMAIN c.blocks[i].payload.checks} : i \in DOMAIN c.blocks}

\* authorizer-local statements the relational claims are tried on
LocalPolicies ==
    { <<PolicyOfText(TAllowA)>>, <<PolicyOfText(TAllowB)>>,
      <<PolicyOfText(TDenyA), PolicyOfText(TAllowA)>> }
LocalSets ==
    [facts : {<<>>, <<FA>>}, rules : {<<>>, <<RBA>>}, checks : {<<>>, <<CB>>},
     policies : LocalPolicies]

Appended == res.op = "Biscuit.append" /\ res.kind = "ok"

\* C3: attenuation monotonicity. After c.append(b) has returned a chain d, the
\* checks in force for d include those of c, and with the same local
\* statements every request c's authorizer denies is denied by d's.
C3_AttenuationMonotone ==
    Appended =>
        LET c == toks[res.recv]
            d == toks[res.val]
        IN  /\ ChecksInForce(c) \subseteq ChecksInForce(d)
            /\ \A loc \in LocalSets : Denied(c, loc) => Denied(d, loc)

\* a second successive append, on a chain denied because a check fails although
\* an allow policy matches, and the new block adds a check
C3_Witness ==
    /\ Appended
    /\ Len(toks[res.val].blocks) >= 3
    /\ ChecksInForce(toks[res.val]) # ChecksInForce(toks[res.recv])
    /\ \E loc \in LocalSets :
          /\ Denied(toks[res.recv], loc)
          /\ Outcome(toks[res.recv], loc).val.policy[1] = "allow"
          /\ Denied(toks[res.val], loc)

\* the appended block narrowed the token: allowed before, denied after
C3_WitnessNarrowed ==
    /\ Appended
    /\ \E loc \in LocalSets : ~Denied(toks[res.recv], loc) /\ Denied(toks[res.val], loc)

AuthorizeStep == calls' # calls /\ res'.op = "Authorizer.authorize"

\* C7: authorize() leaves the authorizer (token, facts, rules, checks, policies)
\* and every token as they were, and a second authorize() right after the
\* first, with no add_* call in between, has the same outcome.
C7_AuthorizeKeepsNothing ==
    [][AuthorizeStep =>
          /\ az' = az /\ toks' = toks /\ bb' = bb /\ blk' = blk
          /\ Authorized => (res'.kind = res.kind /\ res'.val = res.val)]_vars

\* authorize() called twice in a row on a token whose rule derived a fact
C7_Witness ==
    /\ Authorized /\ res.streak >= 2 /\ res.kind = "ok"
    /\ az.token # <<>>
    /\ Visible(az, 0) # PredsOf(az.facts) \cup PredsOf(az.token[1].blocks[1].payload.facts)

\* the public key of the root keypair a chain was built with: block 0's signer
RootOf(c) == c.blocks[1].sig.by

\* from_bytes was given c.to_bytes() and c's root key, or from_base64 was given
\* c.to_base64() and c's root key, c being toks[res.recv]
RoundTrip ==
    /\ res.op \in {"Biscuit.from_bytes", "Biscuit.from_base64"}
    /\ res.x.root = RootOf(toks[res.recv])
    /\ res.x.data = IF res.op = "Biscuit.from_bytes"
                    THEN PyBiscuit_to_bytes(toks[res.recv]).val
                    ELSE PyBiscuit_to_base64(toks[res.recv]).val

\* C6: reading back what a chain serialized to, with the chain's root key,
\* succeeds and gives a chain with the same block count, the same block
\* sources (none where out of range) and the same authorize() outcome.
C6_RoundTrip ==
    RoundTrip =>
        /\ res.kind = "ok"
        /\ LET c == toks[res.recv]
               d == toks[res.val]
           IN  /\ PyBiscuit_block_count(d).val = PyBiscuit_block_count(c).val
               /\ \A i \in 0..(MaxCalls + 1) :
                     PyBiscuit_block_source(d, i).val = PyBiscuit_block_source(c, i).val
               /\ \A loc \in LocalSets :
                     /\ Outcome(d, loc).kind = Outcome(c, loc).kind
                     /\ Outcome(d, loc).val = Outcome(c, loc).val

\* a chain with an appended block came back from its base64 form
C6_Witness ==
    /\ RoundTrip /\ res.op = "Biscuit.from_base64" /\ res.kind = "ok"
    /\ PyBiscuit_block_count(toks[res.val]).val >= 2
    /\ PyBiscuit_block_source(toks[res.val], 1).val.some

\* the same from its raw bytes
C6_WitnessBytes ==
    /\ RoundTrip /\ res.op = "Biscuit.from_bytes" /\ res.kind = "ok"
    /\ PyBiscuit_block_count(toks[res.val]).val >= 2

AppendStep == calls' # calls /\ res'.op = "Biscuit.append"
TokenStep == calls' # calls /\ Len(toks') > Len(toks)

\* C4: append on a sealed chain raises BiscuitBuildError and yields no token,
\* and no call on a sealed chain (or on its serialized form) returns a chain
\* with more blocks.
C4_SealedStaysSealed ==
    [][/\ (AppendStep /\ IsSealed(toks[res'.recv])) =>
              (res'.kind = "BiscuitBuildError" /\ toks' = toks)
       /\ (TokenStep /\ res'.recv \in DOMAIN toks /\ IsSealed(toks[res'.recv])) =>
              Len(toks'[Len(toks')].blocks) <= Len(toks[res'.recv].blocks)]_vars

\* append was called on a chain that seal() had returned
C4_Witness ==
    /\ res.op = "Biscuit.append" /\ res.kind = "BiscuitBuildError"
    /\ IsSealed(toks[res.recv])
    /\ \E i \in DOMAIN toks : ~IsSealed(toks[i]) /\ toks[i].blocks = toks[res.recv].blocks

\* what a program can observe of a chain
Observed(c) ==
    [count |-> PyBiscuit_block_count(c).val,
     sources |-> [i \in 0..(MaxCalls + 1) |-> PyBiscuit_block_source(c, i).val],
     bytes |-> PyBiscuit_to_bytes(c).val,
     sealed |-> IsSealed(c)]

\* C5: no call mutates a Biscuit: every chain of the store shows the same block
\* count, block sources, serialization and sealed status after any call, and
\* append returns a chain one block longer that starts with the receiver's blocks.
C5_BiscuitImmutable ==
    [][/\ \A i \in DOMAIN toks :
             i \in DOMAIN toks' /\ Observed(toks'[i]) = Observed(toks[i])
       /\ (AppendStep /\ res'.kind = "ok") =>
             LET c == toks[res'.recv]
                 d == toks'[res'.val]
             IN  /\ PyBiscuit_block_count(d).val = PyBiscuit_block_count(c).val + 1
                 /\ \A i \in 0..(PyBiscuit_block_count(c).val - 1) :
                       PyBiscuit_block_source(d, i).val = PyBiscuit_block_source(c, i).val]_vars

\* c.append(b) succeeded after c.seal() had returned a sealed chain
C5_Witness ==
    /\ Appended
    /\ \E j \in DOMAIN toks :
          IsSealed(toks[j]) /\ toks[j].blocks = toks[res.recv].blocks
    /\ ~IsSealed(toks[res.recv])

FiveKinds ==
    {"DataLogError", "AuthorizationError", "BiscuitBuildError",
     "BiscuitValidationError", "BiscuitSerializationError"}

\* C8: every failing call raises one of the five error kinds of the module
C8_OnlyFiveKinds == res.kind \in FiveKinds \cup {"ok"}

\* C9: a call that raises DataLogError leaves every builder, the authorizer and
\* every token exactly as they were
C9_FailedAddChangesNothing ==
    [][(calls' # calls /\ res'.kind = "DataLogError") =>
          (bb' = bb /\ blk' = blk /\ az' = az /\ toks' = toks /\ added' = added)]_vars

\* add_code on an authorizer with statements failed on a source whose first
\* statement is valid and whose second is malformed
C9_Witness ==
    /\ res.op = "Authorizer.add_code" /\ res.kind = "DataLogError"
    /\ Len(res.x) = 2 /\ ParseFact(res.x[1]).ok /\ res.x[2] = TBad
    /\ az.live

BuilderStep == calls' # calls /\ res'.op = "BiscuitBuilder.build"
Built == res.op = "BiscuitBuilder.build" /\ res.kind = "ok"
BuilderAdds ==
    {"BiscuitBuilder.add_authority_fact", "BiscuitBuilder.add_authority_rule",
     "BiscuitBuilder.add_authority_check"}
BlockAdds ==
    {"BlockBuilder.add_fact", "BlockBuilder.add_rule", "BlockBuilder.add_check",
     "BlockBuilder.add_code"}

\* C10 as stated: once a builder has been handed to build or append, the next
\* call cannot build or append from it again, nor add a statement to it
C10_ConsumedOnce ==
    [][/\ Built =>
             ~(calls' # calls /\ res'.kind = "ok"
                 /\ res'.op \in BuilderAdds \cup {"BiscuitBuilder.build"})
       /\ Appended =>
             ~(calls' # calls /\ res'.kind = "ok"
                 /\ res'.op \in BlockAdds \cup {"Biscuit.append"})]_vars

\* C10 amended: build and append read the builder and leave it as it was; the
\* chain returned holds, as its last block, the builder's statements
C10_BuilderKept ==
    [][/\ BuilderStep =>
             /\ bb' = bb
             /\ res'.kind = "ok" =>
                   toks'[res'.val].blocks[1].payload = Payload(bb.facts, bb.rules, bb.checks)
       /\ AppendStep =>
             /\ blk' = blk
             /\ res'.kind = "ok" =>
                   LET d == toks'[res'.val]
                   IN  d.blocks[Len(d.blocks)].payload
                           = Payload(blk.facts, blk.rules, blk.checks)]_vars

\* two chains built in a row from one builder that holds a statement
C10_Witness ==
    /\ Built /\ res.streak >= 2
    /\ bb.facts # <<>>
    /\ Len(toks) >= 2
    /\ toks[res.val].blocks[1].payload = toks[res.val - 1].blocks[1].payload

====
